---- MODULE Spec2Model ----
(***************************************************************************)
(* mcphost: the conversation orchestration core.                           *)
(*                                                                         *)
(*   pruneMessages   src/cmd/root.go 60-157   bounded-history pruning      *)
(*   runPrompt       src/cmd/root.go 181-374  one turn: retry loop, tool   *)
(*                                            dispatch, recursive re-entry *)
(*   runMCPHost      src/cmd/root.go 443-492  the interaction loop         *)
(*                                                                         *)
(* Time is counted in seconds.  A tool name and an error text are          *)
(* sequences of tokens, so that strings.Split and strings.Contains are     *)
(* computed and not assumed.  Tool-use ids are 1, 2, ...; 0 is the empty   *)
(* string.                                                                 *)
(***************************************************************************)
EXTENDS Integers, Sequences, FiniteSets, TLC

VARIABLES
    messageWindow,  \* the --message-window flag
    messages,       \* the conversation history ([]MessageParam)
    pc,             \* where the program is: "prompt", "call", "dispatch", "exit", "panic"
    backoff,        \* runPrompt: the next sleep of the retry loop
    retries,        \* runPrompt: retries made in the retry loop
    err,            \* runPrompt: the function-level err variable
    message,        \* runPrompt: Content of the reply being dispatched
    toolResults,    \* runPrompt: tool_result blocks collected in this round
    ret,            \* what the turn returned: "none", "running", "nil", "error"
    nextId,         \* the next tool-use id the provider issues
    outcome,        \* log: what happened to each block of message so far
    attempts,       \* log: CreateMessage calls made by the current retry loop
    sleeps,         \* log: the sleeps of the current retry loop, in order
    replyLog,       \* log: per successful CreateMessage call of the turn, in order,
                    \*      "free" (no tool_use block) or "bearing"
    providerFailed, \* log: a CreateMessage call of the turn returned an error
    emptyRound,     \* log: a tool-bearing reply of the turn produced no tool result
    sentLen,        \* log: len(Messages) of the latest CreateMessageRequest (-1: none)
    turns,          \* log: prompts handed to runPrompt so far
    pruneCall,      \* log: the pruneMessages call just made (input and output)
    lastInput,      \* log: what the interaction loop made of the latest line read:
                    \*      "none", "prompt", "empty", "command"
    adapter         \* the provider adapters on their own: the call made and its result

vars == <<messageWindow, messages, pc, backoff, retries, err, message, toolResults,
          ret, nextId, outcome, attempts, sleeps, replyLog,
          providerFailed, emptyRound, sentLen, turns, pruneCall, lastInput, adapter>>

(***************************************************************************)
(* Program constants (src/cmd/root.go 31-35), in seconds.                  *)
(***************************************************************************)
initialBackoff == 1
maxBackoff == 30
maxRetries == 5

(***************************************************************************)
(* Bounds of the model.                                                    *)
(***************************************************************************)
MaxWindow == 2   \* messageWindow ranges over 0..MaxWindow in a conversation
MaxIds == 2      \* tool-use ids the provider issues in one conversation
MaxTurns == 3    \* prompts of one conversation
MaxLen == 4      \* length of a history handed to pruneMessages on its own
MaxPruneWindow == 3  \* messageWindow ranges over 0..MaxPruneWindow there
MaxPrior == 3   \* prior messages handed to CreateMessage of an adapter
MaxCalls == 2   \* tool calls of one message of a backend
MaxInvocations == 2  \* invocations of GetToolCalls on one message
MaxRounds == 3   \* model calls of one conversation with ollama

Min(a, b) == IF a < b THEN a ELSE b

(***************************************************************************)
(* ContentBlock and MessageParam (src/unnamed/part_006 51-66).             *)
(***************************************************************************)
ContentBlock(type, text, id, toolUseID, name, input, content) ==
    [Type |-> type, Text |-> text, ID |-> id, ToolUseID |-> toolUseID,
     Name |-> name, Input |-> input, Content |-> content]

TextBlock(text) == ContentBlock("text", text, 0, 0, <<>>, "", "")
ToolUseBlock(id, name, input) == ContentBlock("tool_use", "", id, 0, name, input, "")
ToolResultBlock(toolUseID, content) ==
    ContentBlock("tool_result", "", 0, toolUseID, <<>>, "", content)

MessageParam(role, content) == [Role |-> role, Content |-> content]

(***************************************************************************)
(* pruneMessages, the MessageParam branch (src/cmd/root.go 60-118).        *)
(***************************************************************************)
\* messages[len(messages)-messageWindow:] followed by messages[0]: with a
\* window of 0 the slice is empty and messages[0] is out of range.
PrunePanics(msgs, window) == Len(msgs) > window /\ window <= 0

BlocksOf(msgs) ==
    UNION {{msgs[i].Content[j] : j \in DOMAIN msgs[i].Content} : i \in DOMAIN msgs}

BlocksOfType(msgs, type) == {b \in BlocksOf(msgs) : b.Type = type}

\* Fault variant of pruneMessages: the early return taken on len < window only.
pruneMessages_lt(msgs, window) ==
    IF Len(msgs) < window THEN msgs
    ELSE
      LET suffix == SubSeq(msgs, Len(msgs) - window + 1, Len(msgs))
          toolUseIds == {b.ID : b \in BlocksOfType(suffix, "tool_use")}
          toolResultIds == {b.ToolUseID : b \in BlocksOfType(suffix, "tool_result")}
          keep(block) ==
              IF block.Type = "tool_use" THEN block.ID \in toolResultIds
              ELSE IF block.Type = "tool_result" THEN block.ToolUseID \in toolUseIds
              ELSE TRUE
          prunedBlocks(m) == SelectSeq(m.Content, keep)
          hasTextBlock(m) == \E j \in DOMAIN m.Content : m.Content[j].Type = "text"
          included(m) ==
              /\ \/ (Len(prunedBlocks(m)) > 0 /\ m.Role = "assistant")
                 \/ m.Role # "assistant"
              /\ (Len(prunedBlocks(m)) > 0 \/ hasTextBlock(m))
          kept == SelectSeq(suffix, included)
      IN [i \in DOMAIN kept |-> MessageParam(kept[i].Role, prunedBlocks(kept[i]))]

\* Fault variant of pruneMessages: tool_result blocks are never filtered.
pruneMessages_keepResults(msgs, window) ==
    IF Len(msgs) <= window THEN msgs
    ELSE
      LET suffix == SubSeq(msgs, Len(msgs) - window + 1, Len(msgs))
          toolResultIds == {b.ToolUseID : b \in BlocksOfType(suffix, "tool_result")}
          keep(block) ==
              IF block.Type = "tool_use" THEN block.ID \in toolResultIds
              ELSE TRUE
          prunedBlocks(m) == SelectSeq(m.Content, keep)
          hasTextBlock(m) == \E j \in DOMAIN m.Content : m.Content[j].Type = "text"
          included(m) ==
              /\ \/ (Len(prunedBlocks(m)) > 0 /\ m.Role = "assistant")
                 \/ m.Role # "assistant"
              /\ (Len(prunedBlocks(m)) > 0 \/ hasTextBlock(m))
          kept == SelectSeq(suffix, included)
      IN [i \in DOMAIN kept |-> MessageParam(kept[i].Role, prunedBlocks(kept[i]))]

\* Fault variant of RetainedSuffix: one message more than the window.
RetainedSuffix_oneMore(msgs, window) ==
    SubSeq(msgs, Len(msgs) - window, Len(msgs))

\* line 66: messages[len(messages)-messageWindow:]
RetainedSuffix(msgs, window) ==
    SubSeq(msgs, Len(msgs) - window + 1, Len(msgs))

\* lines 71-84, first pass: the ids of the tool_use blocks and the ids named
\* by the tool_result blocks of the retained messages
ToolUseIds(suffix) == {b.ID : b \in BlocksOfType(suffix, "tool_use")}
ToolResultIds(suffix) == {b.ToolUseID : b \in BlocksOfType(suffix, "tool_result")}

\* Fault variant of KeepBlock: a tool_use is kept only next to a text block.
KeepBlock_usesDropped(block, suffix) ==
    IF block.Type = "tool_use" THEN FALSE
    ELSE IF block.Type = "tool_result" THEN block.ToolUseID \in ToolUseIds(suffix)
    ELSE TRUE

\* lines 92-97, second pass: keep
KeepBlock(block, suffix) ==
    IF block.Type = "tool_use" THEN block.ID \in ToolResultIds(suffix)
    ELSE IF block.Type = "tool_result" THEN block.ToolUseID \in ToolUseIds(suffix)
    ELSE TRUE

\* lines 90-101: prunedBlocks of message m
PrunedBlocks(m, suffix) ==
    LET keep(block) == KeepBlock(block, suffix)
    IN  SelectSeq(m.Content, keep)

\* lines 104-110: hasTextBlock, over the blocks m had before filtering
HasTextBlock(m) == \E j \in DOMAIN m.Content : m.Content[j].Type = "text"

\* Fault variant of Included: the test of line 103 alone.
Included_roleOnly(m, suffix) ==
    \/ (Len(PrunedBlocks(m, suffix)) > 0 /\ m.Role = "assistant")
    \/ m.Role # "assistant"

\* Fault variant of Included: a message of another role needs a text block.
Included_textOnly(m, suffix) ==
    \/ (Len(PrunedBlocks(m, suffix)) > 0 /\ m.Role = "assistant")
    \/ (m.Role # "assistant" /\ HasTextBlock(m))

\* Fault variant of Included: an assistant message needs a text block.
Included_assistantText(m, suffix) ==
    \/ (m.Role = "assistant" /\ HasTextBlock(m))
    \/ (m.Role # "assistant" /\ Len(PrunedBlocks(m, suffix)) > 0)

\* lines 103 and 111: the two conditions under which m is appended
Included(m, suffix) ==
    /\ \/ (Len(PrunedBlocks(m, suffix)) > 0 /\ m.Role = "assistant")
       \/ m.Role # "assistant"
    /\ (Len(PrunedBlocks(m, suffix)) > 0 \/ HasTextBlock(m))

\* Fault variant of PrunedMessage: the surviving blocks in reverse order.
PrunedMessage_reversed(m, suffix) ==
    LET blocks == PrunedBlocks(m, suffix)
    IN  MessageParam(m.Role, [k \in DOMAIN blocks |-> blocks[Len(blocks) + 1 - k]])

\* lines 112-113: m.Content = prunedBlocks; append
PrunedMessage(m, suffix) == MessageParam(m.Role, PrunedBlocks(m, suffix))

pruneMessages(msgs, window) ==
    IF Len(msgs) <= window THEN msgs
    ELSE
      LET suffix == RetainedSuffix(msgs, window)
          included(m) == Included(m, suffix)
          kept == SelectSeq(suffix, included)
      IN [i \in DOMAIN kept |-> PrunedMessage(kept[i], suffix)]

(***************************************************************************)
(* The collaborators runPrompt talks to.                                   *)
(***************************************************************************)
\* Errors of AnthropicClient.CreateMessage: "<type>: <message>" as tokens.
NoError == <<>>
OverloadedError == <<"overloaded_error", ":", "Overloaded">>
PermanentError == <<"authentication_error", ":", "invalid x-api-key">>
ProviderErrors == {OverloadedError, PermanentError}
ToolError == <<"tool", "call", "failed">>

\* Fault variant of IsOverloaded: every error is taken for an overload.
IsOverloaded_any(e) == e # <<>>

\* strings.Contains(err.Error(), "overloaded_error")
IsOverloaded(e) == \E i \in DOMAIN e : e[i] = "overloaded_error"

\* Fault variant of RetriesExhausted: one retry too many.
RetriesExhausted_gt(r) == r > maxRetries

\* if retries >= maxRetries
RetriesExhausted(r) == r >= maxRetries

\* backoff *= 2; if backoff > maxBackoff { backoff = maxBackoff }
NextBackoff(b) == IF b * 2 > maxBackoff THEN maxBackoff ELSE b * 2

\* strings.Split(block.Name, "__"), the name given as its tokens
RECURSIVE SplitFrom(_, _, _)
SplitFrom(name, i, part) ==
    IF i > Len(name) THEN <<part>>
    ELSE IF name[i] = "__" THEN <<part>> \o SplitFrom(name, i + 1, <<>>)
    ELSE SplitFrom(name, i + 1, Append(part, name[i]))

\* Fault variant of Split: what follows the second separator is cut off.
Split_atMostTwo(name) ==
    LET parts == SplitFrom(name, 1, <<>>)
    IN  IF Len(parts) <= 2 THEN parts ELSE <<parts[1], parts[2]>>

Split(name) == SplitFrom(name, 1, <<>>)

\* the configured servers (keys of mcpClients)
mcpClients == {<<"srv">>}

\* json.Unmarshal(block.Input, &toolArgs) into a map succeeds on a JSON object
UnmarshalOK(input) == input = "object"

\* What the provider can put into a reply: the kinds of block.
ReplyKinds == {"text", "good", "noseparator", "twoseparators", "unknownserver", "badargs"}

KindBlock(kind, id) ==
    CASE kind = "text" -> TextBlock("answer")
      [] kind = "good" -> ToolUseBlock(id, <<"srv", "__", "tool">>, "object")
      [] kind = "noseparator" -> ToolUseBlock(id, <<"tool">>, "object")
      [] kind = "twoseparators" ->
             ToolUseBlock(id, <<"srv", "__", "tool", "__", "x">>, "object")
      [] kind = "unknownserver" -> ToolUseBlock(id, <<"nosrv", "__", "tool">>, "object")
      [] kind = "badargs" -> ToolUseBlock(id, <<"srv", "__", "tool">>, "array")

\* The reply with blocks of the given kinds, its tool-use ids fresh from id on.
RECURSIVE BuildReply(_, _)
BuildReply(kinds, id) ==
    IF kinds = <<>> THEN <<>>
    ELSE <<KindBlock(Head(kinds), id)>> \o
         BuildReply(Tail(kinds), IF Head(kinds) = "text" THEN id ELSE id + 1)

ToolUses(content) == {j \in DOMAIN content : content[j].Type = "tool_use"}

\* The replies of the provider, by the kinds of their blocks: no block, text
\* alone, one call of each kind, text around a call, two calls of which the
\* first is handled in each possible way.
ReplyShapes ==
    {<<>>, <<"text">>,
     <<"good">>, <<"noseparator">>, <<"twoseparators">>, <<"unknownserver">>,
     <<"badargs">>,
     <<"text", "good">>, <<"good", "text">>,
     <<"good", "good">>, <<"noseparator", "good">>, <<"badargs", "good">>}

(***************************************************************************)
(* runPrompt (src/cmd/root.go 181-374).                                    *)
(***************************************************************************)
NoPrune == [called |-> FALSE, input |-> <<>>, output |-> <<>>]

\* Fault variant of AppendPrompt: the empty prompt is appended as well.
AppendPrompt_always(msgs, prompt) ==
    Append(msgs, MessageParam("user", <<TextBlock(prompt)>>))

\* lines 189-201: a non-empty prompt is appended as a user message
AppendPrompt(msgs, prompt) ==
    IF prompt # "" THEN Append(msgs, MessageParam("user", <<TextBlock(prompt)>>))
    ELSE msgs

\* Fault variant of BlockControl: a failed tool call leaves runPrompt.
BlockControl_toolAborts(o) ==
    IF o \in {"updateRendererErr", "toolerr"} THEN "return" ELSE "continue"

\* lines 256-351: what the loop over message.Content does after a block whose
\* handling ended as o: "return" leaves runPrompt with an error, "continue"
\* goes on to the next block.
BlockControl(o) == IF o = "updateRendererErr" THEN "return" ELSE "continue"

\* Fault variant of ResultsAfter: a failed tool call records nothing.
ResultsAfter_dropError(tr, block, o) ==
    IF o = "ok" THEN Append(tr, ToolResultBlock(block.ID, "result")) ELSE tr

\* Fault variant of ResultsAfter: a new tool result is put in front.
ResultsAfter_prepend(tr, block, o) ==
    IF o = "toolerr" THEN <<ToolResultBlock(block.ID, "error")>> \o tr
    ELSE IF o = "ok" THEN <<ToolResultBlock(block.ID, "result")>> \o tr
    ELSE tr

\* lines 313-349: toolResults after a tool_use block whose handling ended as o
ResultsAfter(tr, block, o) ==
    IF o = "toolerr" THEN Append(tr, ToolResultBlock(block.ID, "error"))
    ELSE IF o = "ok" THEN Append(tr, ToolResultBlock(block.ID, "result"))
    ELSE tr

\* Fault variant of NewRetryState: the retry state of the caller is kept.
NewRetryState_inherited(prev) == prev

\* lines 205-206, at every entry of runPrompt: backoff := initialBackoff,
\* retries := 0; prev is what the previous retry loop left
NewRetryState(prev) == [backoff |-> initialBackoff, retries |-> 0]

\* Fault variant of ShouldRecurse: one tool result is not enough.
ShouldRecurse_two(tr) == Len(tr) > 1

\* line 358: if len(toolResults) > 0
ShouldRecurse(tr) == Len(tr) > 0

\* lines 353-374, once every block of msg is handled: the assistant message is
\* appended; with tool results their user message is appended and runPrompt is
\* entered again with the empty prompt (a new frame: err, backoff, retries).
EndRound(msg, tr, e) ==
    LET withAssistant == Append(messages, MessageParam("assistant", msg))
    IN  /\ emptyRound' = (emptyRound \/ (ToolUses(msg) # {} /\ tr = <<>>))
        /\ IF ShouldRecurse(tr)
           THEN /\ messages' = AppendPrompt(Append(withAssistant, MessageParam("user", tr)), "")
                /\ pc' = "call"
                /\ backoff' = NewRetryState([backoff |-> backoff, retries |-> retries]).backoff
                /\ retries' = NewRetryState([backoff |-> backoff, retries |-> retries]).retries
                /\ err' = NoError
                /\ attempts' = 0
                /\ sleeps' = <<>>
                /\ UNCHANGED ret
           ELSE /\ messages' = withAssistant
                /\ pc' = "prompt"
                /\ ret' = "nil"
                /\ err' = e
                /\ UNCHANGED <<backoff, retries, attempts, sleeps>>

\* The loop over message.Content after one more block: o is the log of the
\* blocks handled so far, tr the tool results, e the value of err.
NextBlock(msg, tr, o, e) ==
    /\ outcome' = o
    /\ toolResults' = tr
    /\ IF Len(o) > 0 /\ BlockControl(o[Len(o)]) = "return"
       THEN /\ pc' = "exit"
            /\ ret' = "error"
            /\ err' = e
            /\ UNCHANGED <<messages, backoff, retries, attempts, sleeps, emptyRound>>
       ELSE IF Len(o) < Len(msg)
       THEN /\ pc' = "dispatch"
            /\ err' = e
            /\ UNCHANGED <<messages, backoff, retries, ret, attempts, sleeps, emptyRound>>
       ELSE EndRound(msg, tr, e)

\* lines 208-220, 246-254: CreateMessage succeeds with a reply; the loop over
\* its blocks starts (and ends at once for a reply without blocks).
CreateMessageOK ==
    /\ pc = "call"
    /\ \E kinds \in ReplyShapes :
         LET reply == BuildReply(kinds, nextId)
         IN  /\ nextId + Cardinality(ToolUses(reply)) <= MaxIds + 1
             /\ message' = reply
             /\ nextId' = nextId + Cardinality(ToolUses(reply))
             /\ replyLog' = Append(replyLog,
                                   IF ToolUses(reply) = {} THEN "free" ELSE "bearing")
             /\ NextBlock(reply, <<>>, <<>>, NoError)
    /\ sentLen' = Len(messages)
    /\ pruneCall' = NoPrune
    /\ UNCHANGED <<messageWindow, providerFailed, turns, lastInput, adapter>>

\* lines 222-245: CreateMessage returns an error
CreateMessageError ==
    /\ pc = "call"
    /\ \E e \in ProviderErrors :
         /\ err' = e
         /\ IF IsOverloaded(e) /\ ~RetriesExhausted(retries)
            THEN /\ sleeps' = Append(sleeps, backoff)
                 /\ backoff' = NextBackoff(backoff)
                 /\ retries' = retries + 1
                 /\ UNCHANGED <<pc, ret>>
            ELSE /\ pc' = "exit"
                 /\ ret' = "error"
                 /\ UNCHANGED <<sleeps, backoff, retries>>
    /\ attempts' = attempts + 1
    /\ sentLen' = Len(messages)
    /\ providerFailed' = TRUE
    /\ pruneCall' = NoPrune
    /\ UNCHANGED <<messageWindow, messages, message, toolResults, nextId, outcome,
                   replyLog, emptyRound, turns, lastInput, adapter>>

CurrentBlock == message[Len(outcome) + 1]

DispatchFrame == UNCHANGED <<messageWindow, message, nextId, replyLog,
                             providerFailed, sentLen, turns, pruneCall,
                             lastInput, adapter>>

\* lines 258-268: a text block; updateRenderer can fail (return), Render can
\* fail (the text is printed raw, continue)
DispatchText ==
    /\ pc = "dispatch"
    /\ CurrentBlock.Type = "text"
    /\ \E r \in {"rendered", "renderErr", "updateRendererErr"} :
         NextBlock(message, toolResults,
                   Append(outcome, IF r = "updateRendererErr" THEN r ELSE "text"), err)
    /\ DispatchFrame

\* lines 273-277: the name does not split into two parts
ToolNameInvalid ==
    /\ pc = "dispatch"
    /\ CurrentBlock.Type = "tool_use"
    /\ Len(Split(CurrentBlock.Name)) # 2
    /\ NextBlock(message, ResultsAfter(toolResults, CurrentBlock, "badname"),
                 Append(outcome, "badname"), err)
    /\ DispatchFrame

\* lines 279-284: no such server
ToolServerNotFound ==
    /\ pc = "dispatch"
    /\ CurrentBlock.Type = "tool_use"
    /\ Len(Split(CurrentBlock.Name)) = 2
    /\ Split(CurrentBlock.Name)[1] \notin mcpClients
    /\ NextBlock(message, ResultsAfter(toolResults, CurrentBlock, "noserver"),
                 Append(outcome, "noserver"), err)
    /\ DispatchFrame

ToolCallable(block) ==
    /\ block.Type = "tool_use"
    /\ Len(Split(block.Name)) = 2
    /\ Split(block.Name)[1] \in mcpClients

\* lines 286-290: the arguments do not parse
ToolArgsUnparsable ==
    /\ pc = "dispatch"
    /\ ToolCallable(CurrentBlock)
    /\ ~UnmarshalOK(CurrentBlock.Input)
    /\ NextBlock(message, ResultsAfter(toolResults, CurrentBlock, "badargs"),
                 Append(outcome, "badargs"), err)
    /\ DispatchFrame

\* lines 292-331: CallTool returns an error (a timeout included)
ToolCallFails ==
    /\ pc = "dispatch"
    /\ ToolCallable(CurrentBlock)
    /\ UnmarshalOK(CurrentBlock.Input)
    /\ NextBlock(message, ResultsAfter(toolResults, CurrentBlock, "toolerr"),
                 Append(outcome, "toolerr"), ToolError)
    /\ DispatchFrame

\* lines 333-340: CallTool succeeds, its result does not marshal
ToolResultUnmarshalable ==
    /\ pc = "dispatch"
    /\ ToolCallable(CurrentBlock)
    /\ UnmarshalOK(CurrentBlock.Input)
    /\ NextBlock(message, ResultsAfter(toolResults, CurrentBlock, "marshalerr"),
                 Append(outcome, "marshalerr"), NoError)
    /\ DispatchFrame

\* lines 333-349: CallTool succeeds and its result is recorded
ToolCallSucceeds ==
    /\ pc = "dispatch"
    /\ ToolCallable(CurrentBlock)
    /\ UnmarshalOK(CurrentBlock.Input)
    /\ NextBlock(message, ResultsAfter(toolResults, CurrentBlock, "ok"),
                 Append(outcome, "ok"), NoError)
    /\ DispatchFrame

(***************************************************************************)
(* handleSlashCommand (src/cmd/mcp.go 338-370).  A line is a sequence of   *)
(* tokens: "/", words, " ".                                                *)
(***************************************************************************)
\* strings.HasPrefix(prompt, "/")
HasSlashPrefix(prompt) == Len(prompt) > 0 /\ prompt[1] = "/"

\* strings.TrimSpace
RECURSIVE TrimLeft(_)
TrimLeft(line) ==
    IF line # <<>> /\ Head(line) = " " THEN TrimLeft(Tail(line)) ELSE line

RECURSIVE TrimRight(_)
TrimRight(line) ==
    IF line # <<>> /\ line[Len(line)] = " "
    THEN TrimRight(SubSeq(line, 1, Len(line) - 1))
    ELSE line

TrimSpace(line) == TrimRight(TrimLeft(line))

\* strings.ToLower
ToLower(line) ==
    [k \in DOMAIN line |-> CASE line[k] = "HELP" -> "help"
                              [] line[k] = "Quit" -> "quit"
                              [] OTHER -> line[k]]

\* the dynamic type of the messages runMCPHost hands over (root.go 441, 476)
MessagesType == "[]MessageParam"

\* Fault variant of TypeAssertionOK: every history is taken as it comes.
TypeAssertionOK_any(dynamicType) == TRUE

\* line 356: messages.([]history.HistoryMessage), an assertion without the
\* comma-ok form: it panics on any other dynamic type
TypeAssertionOK(dynamicType) == dynamicType = "[]history.HistoryMessage"

\* what becomes of the line: "nothandled" (false, nil), "handled" (true, nil),
\* "exit" (the deferred os.Exit(0) runs), "panic"
handleSlashCommand(prompt, dynamicType) ==
    IF ~HasSlashPrefix(prompt) THEN "nothandled"
    ELSE LET command == ToLower(TrimSpace(prompt))
         IN  CASE command = <<"/", "tools">> -> "handled"
               [] command = <<"/", "help">> -> "handled"
               [] command = <<"/", "history">> ->
                      IF TypeAssertionOK(dynamicType) THEN "handled" ELSE "panic"
               [] command = <<"/", "servers">> -> "handled"
               [] command = <<"/", "quit">> -> "exit"
               [] OTHER -> "handled"

\* the lines typed at the prompt that begin with "/"
CommandPrompts ==
    {<<"/", "HELP", " ">>, <<"/", "tools">>, <<"/", "servers">>,
     <<"/", "history">>, <<"/", "Quit">>, <<"/", "bogus">>}

\* the adapters are not called by this loop
NoAdapter == [op |-> "none"]

(***************************************************************************)
(* runMCPHost, the interaction loop (src/cmd/root.go 443-492).             *)
(***************************************************************************)
\* lines 466-491: a prompt that is no command: the history is pruned, then
\* runPrompt is entered with the prompt.
UserPrompt ==
    /\ pc = "prompt"
    /\ handleSlashCommand(<<"hello">>, MessagesType) = "nothandled"
    /\ turns < MaxTurns
    /\ turns' = turns + 1
    /\ IF Len(messages) > 0 /\ PrunePanics(messages, messageWindow)
       THEN /\ pc' = "panic"
            /\ UNCHANGED <<messages, backoff, retries, err, ret, attempts, sleeps,
                           replyLog, providerFailed, emptyRound,
                           pruneCall, message, outcome, toolResults>>
       ELSE LET pruned == IF Len(messages) > 0
                          THEN pruneMessages(messages, messageWindow)
                          ELSE messages
            IN  /\ messages' = AppendPrompt(pruned, "hello")
                /\ pruneCall' = [called |-> Len(messages) > 0,
                                 input |-> messages, output |-> pruned]
                /\ pc' = "call"
                /\ backoff' = NewRetryState([backoff |-> backoff, retries |-> retries]).backoff
                /\ retries' = NewRetryState([backoff |-> backoff, retries |-> retries]).retries
                /\ err' = NoError
                /\ ret' = "running"
                /\ attempts' = 0
                /\ sleeps' = <<>>
                /\ replyLog' = <<>>
                /\ providerFailed' = FALSE
                /\ emptyRound' = FALSE
                /\ message' = <<>>
                /\ outcome' = <<>>
                /\ toolResults' = <<>>
    /\ lastInput' = "prompt"
    /\ UNCHANGED <<messageWindow, nextId, sentLen, adapter>>

\* lines 466-469: an empty line is read; the loop reads the next one
EmptyPrompt ==
    /\ pc = "prompt"
    /\ lastInput' = "empty"
    /\ UNCHANGED <<messageWindow, messages, pc, backoff, retries, err, message,
                   toolResults, ret, nextId, outcome, attempts, sleeps, replyLog,
                   providerFailed, emptyRound, sentLen, turns, pruneCall, adapter>>

\* lines 471-483: a line that handleSlashCommand handles: the loop reads the
\* next line, or the process ends (os.Exit for /quit, the failed type
\* assertion for /history)
SlashCommand ==
    /\ pc = "prompt"
    /\ \E prompt \in CommandPrompts :
         LET handled == handleSlashCommand(prompt, MessagesType)
         IN  /\ handled # "nothandled"
             /\ pc' = CASE handled = "exit" -> "quit"
                        [] handled = "panic" -> "panic"
                        [] OTHER -> "prompt"
    /\ lastInput' = "command"
    /\ UNCHANGED <<messageWindow, messages, backoff, retries, err, message,
                   toolResults, ret, nextId, outcome, attempts, sleeps, replyLog,
                   providerFailed, emptyRound, sentLen, turns, pruneCall, adapter>>

Init ==
    /\ messageWindow \in 0..MaxWindow
    /\ messages = <<>>
    /\ pc = "prompt"
    /\ backoff = initialBackoff
    /\ retries = 0
    /\ err = NoError
    /\ message = <<>>
    /\ toolResults = <<>>
    /\ ret = "none"
    /\ nextId = 1
    /\ outcome = <<>>
    /\ attempts = 0
    /\ sleeps = <<>>
    /\ replyLog = <<>>
    /\ providerFailed = FALSE
    /\ emptyRound = FALSE
    /\ sentLen = -1
    /\ turns = 0
    /\ pruneCall = NoPrune
    /\ lastInput = "none"
    /\ adapter = NoAdapter

Next ==
    \/ UserPrompt
    \/ CreateMessageOK
    \/ CreateMessageError
    \/ DispatchText
    \/ ToolNameInvalid
    \/ ToolServerNotFound
    \/ ToolArgsUnparsable
    \/ ToolCallFails
    \/ ToolResultUnmarshalable
    \/ ToolCallSucceeds

Spec == Init /\ [][Next]_vars

\* the same conversation with empty lines and commands typed between the turns
NextCommands == Next \/ EmptyPrompt \/ SlashCommand

SpecCommands == Init /\ [][NextCommands]_vars

(***************************************************************************)
(* pruneMessages on its own: applied once to a history drawn from the      *)
(* messages runPrompt writes (a prompt, a reply of text and tool_use       *)
(* blocks, a user message of tool_result blocks).                          *)
(***************************************************************************)
GoodTool(id) == ToolUseBlock(id, <<"srv", "__", "tool">>, "object")

HistoryMessages ==
    {MessageParam("user", <<TextBlock("hello")>>),
     MessageParam("user", <<TextBlock("again")>>),
     MessageParam("user", <<ToolResultBlock(1, "result")>>),
     MessageParam("user", <<ToolResultBlock(2, "error")>>),
     MessageParam("user", <<ToolResultBlock(1, "result"), ToolResultBlock(2, "result")>>),
     MessageParam("assistant", <<>>),
     MessageParam("assistant", <<TextBlock("answer")>>),
     MessageParam("assistant", <<GoodTool(1)>>),
     MessageParam("assistant", <<GoodTool(2)>>),
     MessageParam("assistant", <<TextBlock("answer"), GoodTool(1)>>),
     MessageParam("assistant", <<GoodTool(1), GoodTool(2)>>)}

Histories == UNION {[1..n -> HistoryMessages] : n \in 0..MaxLen}

InitPrune ==
    /\ messageWindow \in 0..MaxPruneWindow
    /\ messages \in Histories
    /\ pc = "pure"
    /\ backoff = initialBackoff
    /\ retries = 0
    /\ err = NoError
    /\ message = <<>>
    /\ toolResults = <<>>
    /\ ret = "none"
    /\ nextId = 1
    /\ outcome = <<>>
    /\ attempts = 0
    /\ sleeps = <<>>
    /\ replyLog = <<>>
    /\ providerFailed = FALSE
    /\ emptyRound = FALSE
    /\ sentLen = -1
    /\ turns = 0
    /\ pruneCall = NoPrune
    /\ lastInput = "none"
    /\ adapter = NoAdapter

PureFrame == UNCHANGED <<messageWindow, backoff, retries, err, message, toolResults, ret,
                         nextId, outcome, attempts, sleeps, replyLog, providerFailed,
                         emptyRound, sentLen, turns, lastInput, adapter>>

\* pruneMessages(messages) returns
ApplyPrune ==
    /\ pc = "pure"
    /\ ~PrunePanics(messages, messageWindow)
    /\ pc' = "pruned"
    /\ messages' = pruneMessages(messages, messageWindow)
    /\ pruneCall' = [called |-> TRUE, input |-> messages,
                     output |-> pruneMessages(messages, messageWindow)]
    /\ PureFrame

\* pruneMessages(messages) fails with an index out of range
ApplyPrunePanics ==
    /\ pc = "pure"
    /\ PrunePanics(messages, messageWindow)
    /\ pc' = "panic"
    /\ UNCHANGED <<messages, pruneCall>>
    /\ PureFrame

NextPrune == ApplyPrune \/ ApplyPrunePanics

SpecPrune == InitPrune /\ [][NextPrune]_vars

(***************************************************************************)
(* The provider adapters: src/pkg/llm/anthropic, src/pkg/llm/ollama and    *)
(* the openai package (src/unnamed/part_003).  A Go string is a sequence   *)
(* of tokens here, "" is <<>>; a tool call id is a string.                 *)
(***************************************************************************)
Providers == {"anthropic", "ollama", "openai"}

\* values of type interface{} that are handed over as the content of a tool
\* result: a string, a byte slice, a slice of content blocks (each with or
\* without a "text" entry), a map, and a value json.Marshal rejects
StringValue(s) == [type |-> "string", val |-> s]
BytesValue(b) == [type |-> "[]byte", val |-> b]
ArrayValue(items) == [type |-> "[]interface{}", val |-> items]
MapValue == [type |-> "map", val |-> <<>>]
ChanValue == [type |-> "chan", val |-> <<>>]

TextItem(s) == [hasText |-> TRUE, text |-> s]
DataItem == [hasText |-> FALSE, text |-> <<>>]

ContentValues ==
    {StringValue(<<>>), StringValue(<<"ok">>),
     BytesValue(<<>>), BytesValue(<<"ok">>),
     ArrayValue(<<>>), ArrayValue(<<TextItem(<<"a">>), TextItem(<<"b">>)>>),
     ArrayValue(<<TextItem(<<>>)>>), ArrayValue(<<DataItem>>),
     MapValue, ChanValue}

ToolCallIDs == {"", "call_1"}

\* encoding/json: Marshal fails on channels, functions and the like
Marshalable(v) == v.type # "chan"

\* encoding/base64 of one token, as json.Marshal writes a byte slice
Base64(t) == IF t = "ok" THEN "b2s=" ELSE "base64"

RECURSIVE MarshalItems(_)
MarshalItems(items) ==
    IF items = <<>> THEN <<>>
    ELSE (IF Head(items).hasText
          THEN <<"{\"text\":\"">> \o Head(items).text \o <<"\"}">>
          ELSE <<"{\"data\":1}">>)
         \o (IF Len(items) > 1 THEN <<",">> ELSE <<>>)
         \o MarshalItems(Tail(items))

\* json.Marshal of a value it accepts
Marshal(v) ==
    CASE v.type = "string" -> <<"\"">> \o v.val \o <<"\"">>
      [] v.type = "[]byte" -> <<"\"">> \o [k \in DOMAIN v.val |-> Base64(v.val[k])] \o <<"\"">>
      [] v.type = "[]interface{}" -> <<"[">> \o MarshalItems(v.val) \o <<"]">>
      [] OTHER -> <<"{", "}">>

\* strings.Join of a list of strings
RECURSIVE Join(_, _)
Join(texts, sep) ==
    IF texts = <<>> THEN <<>>
    ELSE IF Len(texts) = 1 THEN Head(texts)
    ELSE Head(texts) \o <<sep>> \o Join(Tail(texts), sep)

\* a tool-result message of an adapter, or the error returned in its place
ToolResponse(provider, role, text, toolCallID) ==
    [failed |-> FALSE, Provider |-> provider, Role |-> role, Text |-> text,
     ToolCallID |-> toolCallID]
ToolResponseError(provider) ==
    [failed |-> TRUE, Provider |-> provider, Role |-> "", Text |-> <<>>, ToolCallID |-> ""]

\* anthropic/provider.go 166-180: contentStr
AnthropicContentStr(v) ==
    CASE v.type = "string" -> v.val
      [] v.type = "[]byte" -> v.val
      [] OTHER -> IF Marshalable(v) THEN Marshal(v) ELSE <<"%v">>

\* ollama/provider.go 202-217: contentStr
OllamaContentStr(v) == IF v.type = "string" THEN v.val ELSE Marshal(v)

\* openai 212-241: the texts of the blocks of a slice
OpenAITexts(items) ==
    LET withText == SelectSeq(items, LAMBDA item : item.hasText)
    IN  [k \in DOMAIN withText |-> withText[k].text]

\* openai 206-259: contentStr before the placeholder
OpenAIContentStr(v) ==
    CASE v.type = "string" -> v.val
      [] v.type = "[]interface{}" ->
            IF Join(OpenAITexts(v.val), "\n") = <<>> THEN Marshal(v)
            ELSE Join(OpenAITexts(v.val), "\n")
      [] OTHER -> Marshal(v)

\* the string form of the content, per adapter
ContentStr(provider, v) ==
    CASE provider = "anthropic" -> AnthropicContentStr(v)
      [] provider = "ollama" -> OllamaContentStr(v)
      [] OTHER -> OpenAIContentStr(v)

\* openai 262-264: the only adapter with a fallback for the empty string
Placeholder == <<"No content returned from tool">>
WithPlaceholder(provider, contentStr) ==
    IF provider = "openai" /\ contentStr = <<>> THEN Placeholder ELSE contentStr

\* CreateToolResponse of the three adapters
CreateToolResponse(provider, toolCallID, content) ==
    IF provider # "anthropic" /\ ~Marshalable(content)
    THEN ToolResponseError(provider)
    ELSE ToolResponse(provider, "tool",
                      WithPlaceholder(provider, ContentStr(provider, content)),
                      toolCallID)

\* Fault variant of IsToolResponse: a tool response is known by its text.
IsToolResponse_byText(m) == m.Text # <<>>

\* IsToolResponse: anthropic/types.go 135-142 (a tool_result block is there),
\* ollama/types.go 92-94 (the role), openai 309-311 (the id is not empty)
IsToolResponse(m) ==
    CASE m.Provider = "anthropic" -> TRUE
      [] m.Provider = "ollama" -> m.Role = "tool"
      [] OTHER -> m.ToolCallID # ""

\* GetToolResponseID: anthropic/types.go 144-151, ollama/types.go 96-98,
\* openai 313-315
GetToolResponseID(m) == m.ToolCallID

NoResponse == ToolResponseError("")

\* a message behind the llm.Message interface, by what its accessors return:
\* GetRole, GetContent, GetToolCalls, IsToolResponse, GetToolResponseID; for
\* a *history.HistoryMessage also the Text of its first tool_result block
LlmMessage(role, content, toolCalls, isToolResponse, toolResponseID, isHistory, resultText) ==
    [Role |-> role, Content |-> content, ToolCalls |-> toolCalls,
     IsToolResponse |-> isToolResponse, ToolResponseID |-> toolResponseID,
     IsHistory |-> isHistory, ResultText |-> resultText]

LlmToolCall(id, name) == [ID |-> id, Name |-> name]

PriorMessages ==
    {LlmMessage("user", <<"hello">>, <<>>, FALSE, "", FALSE, <<>>),
     LlmMessage("assistant", <<"answer">>, <<>>, FALSE, "", FALSE, <<>>),
     LlmMessage("assistant", <<>>, <<LlmToolCall("call_1", "tool")>>, FALSE, "", FALSE, <<>>),
     LlmMessage("tool", <<"result">>, <<>>, TRUE, "call_1", FALSE, <<>>),
     LlmMessage("tool", <<>>, <<>>, TRUE, "call_1", FALSE, <<>>),
     LlmMessage("user", <<>>, <<>>, TRUE, "call_1", TRUE, <<"stored">>),
     LlmMessage("assistant", <<>>, <<>>, FALSE, "", FALSE, <<>>)}

Prompts == {<<>>, <<"next">>}

\* a message of the request an adapter sends: role, text, tool calls, and for
\* a tool response the id it answers and its content
WireMessage(role, text, toolCalls, toolCallID, result) ==
    [Role |-> role, Text |-> text, ToolCalls |-> toolCalls, ToolCallID |-> toolCallID,
     Result |-> result]

\* anthropic/provider.go 42-101: every message becomes one wire message
AnthropicWire(msg) ==
    <<WireMessage(msg.Role, TrimSpace(msg.Content), msg.ToolCalls,
                  IF msg.IsToolResponse THEN msg.ToolResponseID ELSE "",
                  IF msg.IsToolResponse /\ ~msg.IsHistory THEN msg.Content ELSE <<>>)>>

\* ollama/provider.go 52-113: tool responses without content and messages
\* without content and tool calls are left out
OllamaWire(msg) ==
    IF msg.IsToolResponse
    THEN LET found == IF msg.IsHistory THEN msg.ResultText ELSE <<>>
             content == IF found = <<>> THEN msg.Content ELSE found
         IN  IF content = <<>> THEN <<>>
             ELSE <<WireMessage("tool", content, <<>>, "", <<>>)>>
    ELSE IF msg.Content = <<>> /\ Len(msg.ToolCalls) = 0 THEN <<>>
    ELSE <<WireMessage(msg.Role, msg.Content,
                       IF msg.Role = "assistant"
                       THEN [k \in DOMAIN msg.ToolCalls |->
                                LlmToolCall("", msg.ToolCalls[k].Name)]
                       ELSE <<>>,
                       "", <<>>)>>

\* openai 54-140: every message becomes one wire message
OpenAIWire(msg) ==
    LET text == IF Len(msg.ToolCalls) > 0 THEN <<>> ELSE msg.Content
        fromBlocks == IF msg.IsHistory THEN msg.ResultText ELSE <<>>
        contentStr == IF msg.Content # <<>> THEN msg.Content ELSE fromBlocks
    IN  IF msg.IsToolResponse
        THEN <<WireMessage("tool", <<>>, msg.ToolCalls, msg.ToolResponseID,
                           IF contentStr = <<>>
                           THEN <<"No content returned from function">>
                           ELSE contentStr)>>
        ELSE <<WireMessage(msg.Role, text, msg.ToolCalls, "", <<>>)>>

\* the wire messages one message of the history becomes: none or one
WireOf(provider, msg) ==
    CASE provider = "anthropic" -> AnthropicWire(msg)
      [] provider = "ollama" -> OllamaWire(msg)
      [] OTHER -> OpenAIWire(msg)

\* Fault variant of AppendWire: the converted message is put in front.
AppendWire_front(wire, converted) == converted \o wire

\* anthropic 97-100, ollama 80 and 112, openai 139: append to the request
AppendWire(wire, converted) == wire \o converted

\* the loop over the messages of the history
RECURSIVE ConvertMessages(_, _, _)
ConvertMessages(provider, msgs, wire) ==
    IF msgs = <<>> THEN wire
    ELSE ConvertMessages(provider, Tail(msgs), AppendWire(wire, WireOf(provider, Head(msgs))))

\* the wire message of the prompt
PromptWire(prompt) == WireMessage("user", prompt, <<>>, "", <<>>)

\* anthropic 104-112, ollama 116-121, openai 148-154
WithPrompt(wire, prompt) ==
    IF prompt # <<>> THEN Append(wire, PromptWire(prompt)) ELSE wire

\* the message list of the request built by CreateMessage
CreateMessage(provider, prompt, msgs) ==
    WithPrompt(ConvertMessages(provider, msgs, <<>>), prompt)

\* the tool calls a message of a backend holds: anthropic, openai and stored
\* history messages carry the id the backend issued for each call, distinct
\* within a message; an api.Message of ollama carries the function only
BackendToolCall(provider, k, name) ==
    [ID |-> IF provider = "ollama" THEN <<>> ELSE <<"call", k>>, Name |-> name]

ToolNames == {"a", "b"}

MessageKinds == Providers \cup {"history"}

ToolCallLists(provider) ==
    UNION {{[k \in 1..n |-> BackendToolCall(provider, k, names[k])] :
               names \in [1..n -> ToolNames]} : n \in 0..MaxCalls}

\* the readings of time.Now().UnixNano() of consecutive calls: the clock has
\* advanced by ticks[j] between reading j and the next one
RECURSIVE ClockAt(_, _, _)
ClockAt(clock, ticks, k) ==
    IF k <= 1 THEN clock ELSE ClockAt(clock, ticks, k - 1) + ticks[k - 1]

\* ollama/types.go 106-115: NewOllamaToolCall at the clock reading now
NewOllamaToolCall(call, now) == [ID |-> <<"tc_", call.Name, now>>, Name |-> call.Name]

\* GetToolCalls: anthropic/types.go 121-133, history 31-43 and openai 301-307
\* hand out the calls of the message; ollama/types.go 80-86 makes a new
\* OllamaToolCall of each, with an id of its own
GetToolCalls(provider, calls, clock, ticks) ==
    IF provider = "ollama"
    THEN [k \in DOMAIN calls |-> NewOllamaToolCall(calls[k], ClockAt(clock, ticks, k))]
    ELSE calls

\* the inputs of one call of an adapter, and what it has returned
IdleCall ==
    [op |-> "none", provider |-> "", toolCallID |-> "", content |-> StringValue(<<>>),
     prompt |-> <<>>, prior |-> <<>>, returned |-> FALSE, response |-> NoResponse,
     wire |-> <<>>, calls |-> <<>>, clock |-> 0, invocations |-> <<>>]

ToolResponseCalls ==
    {[IdleCall EXCEPT !.op = "CreateToolResponse", !.provider = p, !.toolCallID = id,
                      !.content = v] :
        p \in Providers, id \in ToolCallIDs, v \in ContentValues}

PriorLists == UNION {[1..n -> PriorMessages] : n \in 0..MaxPrior}

CreateMessageCalls ==
    {[IdleCall EXCEPT !.op = "CreateMessage", !.provider = p, !.prompt = q, !.prior = h] :
        p \in Providers, q \in Prompts, h \in PriorLists}

GetToolCallsCalls ==
    UNION {{[IdleCall EXCEPT !.op = "GetToolCalls", !.provider = p, !.calls = c] :
               c \in ToolCallLists(p)} : p \in MessageKinds}

InitAdapter ==
    /\ adapter \in ToolResponseCalls \cup CreateMessageCalls \cup GetToolCallsCalls
    /\ messageWindow = 0
    /\ messages = <<>>
    /\ pc = "adapter"
    /\ backoff = initialBackoff
    /\ retries = 0
    /\ err = NoError
    /\ message = <<>>
    /\ toolResults = <<>>
    /\ ret = "none"
    /\ nextId = 1
    /\ outcome = <<>>
    /\ attempts = 0
    /\ sleeps = <<>>
    /\ replyLog = <<>>
    /\ providerFailed = FALSE
    /\ emptyRound = FALSE
    /\ sentLen = -1
    /\ turns = 0
    /\ pruneCall = NoPrune
    /\ lastInput = "none"

AdapterFrame == UNCHANGED <<messageWindow, messages, pc, backoff, retries, err, message,
                            toolResults, ret, nextId, outcome, attempts, sleeps, replyLog,
                            providerFailed, emptyRound, sentLen, turns, pruneCall,
                            lastInput>>

\* provider.CreateToolResponse(toolCallID, content) returns
ApplyCreateToolResponse ==
    /\ adapter.op = "CreateToolResponse"
    /\ ~adapter.returned
    /\ adapter' = [adapter EXCEPT
                      !.returned = TRUE,
                      !.response = CreateToolResponse(adapter.provider, adapter.toolCallID,
                                                      adapter.content)]
    /\ AdapterFrame

\* provider.CreateMessage(ctx, prompt, messages, tools) has built its request
ApplyCreateMessage ==
    /\ adapter.op = "CreateMessage"
    /\ ~adapter.returned
    /\ adapter' = [adapter EXCEPT
                      !.returned = TRUE,
                      !.wire = CreateMessage(adapter.provider, adapter.prompt, adapter.prior)]
    /\ AdapterFrame

\* message.GetToolCalls() is invoked on the message, which stays as it is;
\* the clock goes on, or stands still, between two readings
ApplyGetToolCalls ==
    /\ adapter.op = "GetToolCalls"
    /\ Len(adapter.invocations) < MaxInvocations
    /\ \E ticks \in [1..Len(adapter.calls) -> {0, 1}] :
         adapter' = [adapter EXCEPT
                        !.returned = TRUE,
                        !.invocations = Append(@, GetToolCalls(adapter.provider, adapter.calls,
                                                               adapter.clock, ticks)),
                        !.clock = ClockAt(adapter.clock, ticks, Len(adapter.calls) + 1)]
    /\ AdapterFrame

NextAdapter == ApplyCreateToolResponse \/ ApplyCreateMessage \/ ApplyGetToolCalls

SpecAdapter == InitAdapter /\ [][NextAdapter]_vars

(***************************************************************************)
(* The ollama path: api.Message histories, the api.Message branch of       *)
(* pruneMessages (src/cmd/root.go 119-153) and runOllamaPrompt             *)
(* (src/cmd/ollama.go 262-419).                                            *)
(***************************************************************************)
\* api.Message and api.ToolCall: a tool call has a function name, no id
ApiToolCall(name) == [Name |-> name]
ApiMessage(role, content, toolCalls) ==
    [Role |-> role, Content |-> content, ToolCalls |-> toolCalls]

\* root.go 122-152, the iteration for suffix[i]: the indices of the messages
\* it appends to prunedMessages
OllamaKeptAt(suffix, i) ==
    IF Len(suffix[i].ToolCalls) > 0
    THEN IF i + 1 <= Len(suffix) /\ suffix[i + 1].Role = "tool"
         THEN <<i, i + 1>>
         ELSE <<>>
    ELSE IF suffix[i].Role = "tool" THEN <<>>
    ELSE <<i>>

\* the loop from index i on: the indices of the retained messages, in order
RECURSIVE OllamaKeptFrom(_, _)
OllamaKeptFrom(suffix, i) ==
    IF i > Len(suffix) THEN <<>>
    ELSE OllamaKeptAt(suffix, i) \o OllamaKeptFrom(suffix, i + 1)

\* root.go 60-68 and 119-153: pruneMessages on a history of api.Message
pruneOllamaMessages(msgs, window) ==
    IF Len(msgs) <= window THEN msgs
    ELSE LET suffix == SubSeq(msgs, Len(msgs) - window + 1, Len(msgs))
             kept == OllamaKeptFrom(suffix, 1)
         IN  [k \in DOMAIN kept |-> suffix[kept[k]]]

GoodCall == ApiToolCall(<<"srv", "__", "tool">>)

ApiMessages ==
    {ApiMessage("system", "prompt", <<>>),
     ApiMessage("user", "hello", <<>>),
     ApiMessage("assistant", "answer", <<>>),
     ApiMessage("assistant", "", <<GoodCall>>),
     ApiMessage("assistant", "", <<GoodCall, GoodCall>>),
     ApiMessage("tool", "result", <<>>),
     ApiMessage("tool", "error", <<>>)}

ApiHistories == UNION {[1..n -> ApiMessages] : n \in 0..MaxLen}

InitOllamaPrune ==
    /\ messageWindow \in 0..MaxPruneWindow
    /\ messages \in ApiHistories
    /\ pc = "pure"
    /\ backoff = initialBackoff
    /\ retries = 0
    /\ err = NoError
    /\ message = <<>>
    /\ toolResults = <<>>
    /\ ret = "none"
    /\ nextId = 1
    /\ outcome = <<>>
    /\ attempts = 0
    /\ sleeps = <<>>
    /\ replyLog = <<>>
    /\ providerFailed = FALSE
    /\ emptyRound = FALSE
    /\ sentLen = -1
    /\ turns = 0
    /\ pruneCall = NoPrune
    /\ lastInput = "none"
    /\ adapter = NoAdapter

\* pruneMessages(messages) returns
ApplyOllamaPrune ==
    /\ pc = "pure"
    /\ ~PrunePanics(messages, messageWindow)
    /\ pc' = "pruned"
    /\ messages' = pruneOllamaMessages(messages, messageWindow)
    /\ pruneCall' = [called |-> TRUE, input |-> messages,
                     output |-> pruneOllamaMessages(messages, messageWindow)]
    /\ PureFrame

\* pruneMessages(messages) fails with an index out of range
ApplyOllamaPrunePanics ==
    /\ pc = "pure"
    /\ PrunePanics(messages, messageWindow)
    /\ pc' = "panic"
    /\ UNCHANGED <<messages, pruneCall>>
    /\ PureFrame

NextOllamaPrune == ApplyOllamaPrune \/ ApplyOllamaPrunePanics

SpecOllamaPrune == InitOllamaPrune /\ [][NextOllamaPrune]_vars

\* ollama.go 210-217: the history starts with the system prompt
SystemMessage == ApiMessage("system", "prompt", <<>>)

\* What the model can put into response.Message.ToolCalls: the kinds of call.
OllamaCallKinds == {"good", "noseparator", "unknownserver"}

OllamaKindCall(kind) ==
    CASE kind = "good" -> GoodCall
      [] kind = "noseparator" -> ApiToolCall(<<"tool">>)
      [] OTHER -> ApiToolCall(<<"nosrv", "__", "tool">>)

\* The replies of the model, by the kinds of their tool calls: an answer
\* without calls, one call of each kind, two calls of which the first is
\* skipped.
OllamaReplyShapes ==
    {<<>>, <<"good">>, <<"noseparator">>, <<"unknownserver">>,
     <<"noseparator", "good">>, <<"noseparator", "unknownserver">>}

OllamaReply(kinds) ==
    ApiMessage("assistant", IF kinds = <<>> THEN "answer" ELSE "",
               [k \in DOMAIN kinds |-> OllamaKindCall(kinds[k])])

\* lines 370-409: the messages after a tool call whose handling ended as o
OllamaMessagesAfter(msgs, o) ==
    IF o \in {"toolerr", "iserror"} THEN Append(msgs, ApiMessage("tool", "error", <<>>))
    ELSE IF o = "ok" THEN Append(msgs, ApiMessage("tool", "result", <<>>))
    ELSE msgs

\* line 320, taken once for a reply: if len(toolCalls) > 0, the loop runs and
\* runOllamaPrompt is entered again (line 414)
OllamaShouldRecurse(toolCalls) == Len(toolCalls) > 0

InitOllama ==
    /\ messageWindow = 0
    /\ messages = <<SystemMessage>>
    /\ pc = "prompt"
    /\ backoff = initialBackoff
    /\ retries = 0
    /\ err = NoError
    /\ message = <<>>
    /\ toolResults = <<>>
    /\ ret = "none"
    /\ nextId = 1
    /\ outcome = <<>>
    /\ attempts = 0
    /\ sleeps = <<>>
    /\ replyLog = <<>>
    /\ providerFailed = FALSE
    /\ emptyRound = FALSE
    /\ sentLen = -1
    /\ turns = 0
    /\ pruneCall = NoPrune
    /\ lastInput = "none"
    /\ adapter = NoAdapter

OllamaFrame == UNCHANGED <<messageWindow, backoff, retries, err, nextId, sleeps,
                           providerFailed, emptyRound, pruneCall, adapter>>

\* ollama.go 241-255 and 269-275: a prompt that is no command is appended
\* and runOllamaPrompt goes on to the model call
OllamaUserPrompt ==
    /\ pc = "prompt"
    /\ turns < MaxTurns
    /\ messages' = Append(messages, ApiMessage("user", "hello", <<>>))
    /\ pc' = "chat"
    /\ ret' = "running"
    /\ turns' = turns + 1
    /\ message' = <<>>
    /\ outcome' = <<>>
    /\ toolResults' = <<>>
    /\ replyLog' = <<>>
    /\ lastInput' = "prompt"
    /\ UNCHANGED <<attempts, sentLen>>
    /\ OllamaFrame

\* lines 281-303: client.Chat returns an error
OllamaChatFails ==
    /\ pc = "chat"
    /\ attempts < MaxRounds
    /\ attempts' = attempts + 1
    /\ sentLen' = Len(messages)
    /\ pc' = "exit"
    /\ ret' = "error"
    /\ UNCHANGED <<messages, message, outcome, toolResults, replyLog, turns, lastInput>>
    /\ OllamaFrame

\* lines 281-320 and 417-418: client.Chat delivers the reply, the callback
\* appends it to the history; updateRenderer can fail (return); a reply with
\* tool calls starts the loop over them, one without ends the turn
OllamaChatOK ==
    /\ pc = "chat"
    /\ attempts < MaxRounds
    /\ \E kinds \in OllamaReplyShapes, renderer \in {"ok", "updateRendererErr"} :
         /\ messages' = Append(messages, OllamaReply(kinds))
         /\ message' = OllamaReply(kinds).ToolCalls
         /\ IF renderer = "updateRendererErr"
            THEN pc' = "exit" /\ ret' = "error"
            ELSE IF OllamaShouldRecurse(OllamaReply(kinds).ToolCalls)
            THEN pc' = "tools" /\ UNCHANGED ret
            ELSE pc' = "prompt" /\ ret' = "nil"
    /\ attempts' = attempts + 1
    /\ sentLen' = Len(messages)
    /\ outcome' = <<>>
    /\ toolResults' = <<>>
    /\ UNCHANGED <<replyLog, turns, lastInput>>
    /\ OllamaFrame

OllamaCurrentCall == message[Len(outcome) + 1]

\* the loop over toolCalls after one more call handled as o; after the last
\* one runOllamaPrompt is entered again with the empty prompt (line 414)
OllamaNextCall(o) ==
    /\ outcome' = Append(outcome, o)
    /\ messages' = OllamaMessagesAfter(messages, o)
    /\ toolResults' = OllamaMessagesAfter(toolResults, o)
    /\ IF Len(outcome) + 1 < Len(message)
       THEN pc' = "tools" /\ UNCHANGED replyLog
       ELSE /\ pc' = "chat"
            /\ replyLog' = Append(replyLog, Len(OllamaMessagesAfter(toolResults, o)))
    /\ UNCHANGED <<message, ret, attempts, sentLen, turns, lastInput>>
    /\ OllamaFrame

\* lines 328-335: the name does not split into two parts
OllamaToolNameInvalid ==
    /\ pc = "tools"
    /\ Len(Split(OllamaCurrentCall.Name)) # 2
    /\ OllamaNextCall("badname")

\* lines 337-342: no such server
OllamaToolServerNotFound ==
    /\ pc = "tools"
    /\ Len(Split(OllamaCurrentCall.Name)) = 2
    /\ Split(OllamaCurrentCall.Name)[1] \notin mcpClients
    /\ OllamaNextCall("noserver")

OllamaCallable(call) ==
    /\ Len(Split(call.Name)) = 2
    /\ Split(call.Name)[1] \in mcpClients

\* lines 344-384: CallTool returns an error (the timeout of 10 s included)
OllamaToolCallFails ==
    /\ pc = "tools"
    /\ OllamaCallable(OllamaCurrentCall)
    /\ OllamaNextCall("toolerr")

\* lines 386-396: the result of the tool is flagged as an error
OllamaToolResultIsError ==
    /\ pc = "tools"
    /\ OllamaCallable(OllamaCurrentCall)
    /\ OllamaNextCall("iserror")

\* lines 398-404: the result cannot be marshalled
OllamaToolResultUnmarshalable ==
    /\ pc = "tools"
    /\ OllamaCallable(OllamaCurrentCall)
    /\ OllamaNextCall("marshalerr")

\* lines 406-409: the result is appended as a tool message
OllamaToolCallSucceeds ==
    /\ pc = "tools"
    /\ OllamaCallable(OllamaCurrentCall)
    /\ OllamaNextCall("ok")

NextOllama ==
    \/ OllamaUserPrompt
    \/ OllamaChatFails
    \/ OllamaChatOK
    \/ OllamaToolNameInvalid
    \/ OllamaToolServerNotFound
    \/ OllamaToolCallFails
    \/ OllamaToolResultIsError
    \/ OllamaToolResultUnmarshalable
    \/ OllamaToolCallSucceeds

SpecOllama == InitOllama /\ [][NextOllama]_vars

(***************************************************************************)
(* Properties.                                                             *)
(***************************************************************************)
\* every tool_result names the id of a tool_use of msgs, and every tool_use
\* is named by a tool_result of msgs
Paired(msgs) ==
    /\ \A r \in BlocksOfType(msgs, "tool_result") :
           \E u \in BlocksOfType(msgs, "tool_use") : u.ID = r.ToolUseID
    /\ \A u \in BlocksOfType(msgs, "tool_use") :
           \E r \in BlocksOfType(msgs, "tool_result") : r.ToolUseID = u.ID

\* every tool_result names the id of a tool_use in an earlier message
NoDangling(msgs) ==
    \A i \in DOMAIN msgs : \A j \in DOMAIN msgs[i].Content :
        msgs[i].Content[j].Type = "tool_result" =>
            \E i2 \in 1..(i - 1) : \E j2 \in DOMAIN msgs[i2].Content :
                /\ msgs[i2].Content[j2].Type = "tool_use"
                /\ msgs[i2].Content[j2].ID = msgs[i].Content[j].ToolUseID

\* C1: whatever history pruneMessages returns (window >= 1, the input longer
\* than the window or not), its tool_use and tool_result blocks are paired:
\* no orphan in either direction.
C1_PairingAfterPrune ==
    (pruneCall.called /\ messageWindow >= 1) => Paired(pruneCall.output)

\* C2: the message list of every model request of a turn holds at most
\* messageWindow messages.
C2_RequestWithinWindow ==
    (sentLen >= 0 /\ messageWindow >= 1) => sentLen <= messageWindow

\* C6: pruneMessages returns a history of at most messageWindow messages
\* unchanged: the same messages in the same order with the same blocks.
C6_PruneWithinWindowUnchanged ==
    (pruneCall.called /\ Len(pruneCall.input) <= messageWindow)
        => pruneCall.output = pruneCall.input

\* C6 happens: a history of exactly messageWindow messages that holds an
\* orphan was pruned.
C6_Witness ==
    /\ pruneCall.called
    /\ Len(pruneCall.input) = messageWindow
    /\ messageWindow >= 2
    /\ ~Paired(pruneCall.input)
    /\ pc = "pruned"

\* C7: in every state of the conversation every tool_result block of the
\* history names the id of a tool_use block of an earlier message.
C7_NoDanglingResult == NoDangling(messages)

\* C7 happens: pruning cut a tool_use away from its tool_result and the
\* conversation went on.
C7_Witness ==
    /\ pruneCall.called
    /\ Len(pruneCall.input) > messageWindow
    /\ ~NoDangling(SubSeq(pruneCall.input, Len(pruneCall.input) - messageWindow + 1,
                          Len(pruneCall.input)))
    /\ pc = "call"

\* the turn has returned
TurnOver == ret \in {"nil", "error"}

\* runPrompt was left at the updateRenderer failure of a text block
RendererFailed == Len(outcome) > 0 /\ outcome[Len(outcome)] = "updateRendererErr"

\* the replies of the turn so far: tool-call-bearing ones, then one that is free
BearingThenFree ==
    /\ Len(replyLog) >= 1
    /\ replyLog[Len(replyLog)] = "free"
    /\ \A i \in 1..(Len(replyLog) - 1) : replyLog[i] = "bearing"

RoundAppended ==
    /\ pc \in {"call", "prompt", "exit"}
    /\ Len(message) > 0
    /\ Len(outcome) = Len(message)
    /\ ~RendererFailed

\* the history holds a tool_result for id that carries the error text
HasErrorResult(msgs, id) ==
    \E r \in BlocksOfType(msgs, "tool_result") : r.ToolUseID = id /\ r.Content = "error"

RECURSIVE Pow2(_)
Pow2(n) == IF n = 0 THEN 1 ELSE 2 * Pow2(n - 1)

RECURSIVE SumSeq(_)
SumSeq(q) == IF q = <<>> THEN 0 ELSE Head(q) + SumSeq(Tail(q))

\* C5: a retry loop that ends on overload made maxRetries+1 calls and slept
\* maxRetries times; the k-th sleep of any retry loop lasts
\* min(initialBackoff*2^(k-1), maxBackoff); the total is
\* initialBackoff*(2^maxRetries-1) = 31 s.
C5_BackoffBound ==
    /\ \A k \in DOMAIN sleeps : sleeps[k] = Min(initialBackoff * Pow2(k - 1), maxBackoff)
    /\ Len(sleeps) <= maxRetries
    /\ (pc = "exit" /\ "overloaded_error" \in {err[i] : i \in DOMAIN err}) =>
          /\ attempts = maxRetries + 1
          /\ Len(sleeps) = maxRetries
          /\ SumSeq(sleeps) = initialBackoff * (Pow2(maxRetries) - 1)
          /\ SumSeq(sleeps) = 31
          /\ ret = "error"

\* C5 happens: the provider was overloaded on every call of a retry loop.
C5_Witness ==
    /\ pc = "exit"
    /\ err = OverloadedError
    /\ sleeps = <<1, 2, 4, 8, 16>>

\* C8 as claimed: the turn returns an error only on a provider error that is
\* not an overload.
C8_AbortOnlyPermanentAsClaimed ==
    pc = "exit" => (err \in ProviderErrors /\ err # OverloadedError)

\* C8: the turn returns an error only on a provider error that is not an
\* overload, on an overload after maxRetries retries, or on an updateRenderer
\* failure; never on a malformed tool call, a failed tool call or a
\* serialization fault.
C8_AbortCauses ==
    pc = "exit" =>
        \/ err = PermanentError
        \/ err = OverloadedError /\ attempts = maxRetries + 1
        \/ err \notin ProviderErrors /\ RendererFailed

\* C8 happens: after a round with a failed tool call, the retry loop of the
\* next round ran out of retries.
C8_Witness ==
    /\ pc = "exit"
    /\ err = OverloadedError
    /\ \E i \in DOMAIN outcome : outcome[i] = "toolerr"

\* C9: once a round is appended, the history holds an error tool_result for
\* every call of it whose arguments did not parse or whose result did not
\* serialize.
C9_SerializationFaultResult ==
    RoundAppended =>
        \A i \in DOMAIN outcome : outcome[i] \in {"badargs", "marshalerr"} =>
            HasErrorResult(messages, message[i].ID)

\* C10: a provider error without the overload marker ends the turn at once:
\* runPrompt has returned the error, and the retry loop slept only after its
\* earlier calls.
C10_PermanentErrorImmediate ==
    (err \in ProviderErrors /\ "overloaded_error" \notin {err[i] : i \in DOMAIN err}) =>
        /\ pc = "exit"
        /\ ret = "error"
        /\ Len(sleeps) = attempts - 1

\* C10 happens: the permanent error came after two overloads.
C10_Witness ==
    /\ err = PermanentError
    /\ attempts = 3
    /\ sleeps = <<1, 2>>

\* a step that ends the handling of a reply: runPrompt goes past the loop over
\* the blocks of the reply, or leaves it with an error
ReplyHandled ==
    /\ pc \in {"call", "dispatch"}
    /\ outcome' # outcome \/ replyLog' # replyLog
    /\ pc' # "dispatch"

\* C11 as claimed: after every reply, a further model call of the same turn
\* follows if and only if the reply's dispatch produced a tool result, and
\* the turn ends idle otherwise.
C11_RecursionIffAsClaimed ==
    [][ReplyHandled =>
          /\ (pc' = "call") <=> (toolResults' # <<>>)
          /\ (pc' # "call") => ret' = "nil"]_vars

\* C11: once the loop over the blocks of a reply has run to its end, a
\* further model call of the same turn follows if and only if the loop
\* produced at least one tool result, and otherwise the turn ends idle; the
\* re-entry appends the assistant message and the tool results and no prompt
\* message.  Only an updateRenderer failure leaves the loop before its end.
C11_RecursionIff ==
    [][ReplyHandled =>
          \/ /\ pc' = "exit"
             /\ ret' = "error"
             /\ outcome'[Len(outcome')] = "updateRendererErr"
             /\ messages' = messages
          \/ /\ pc' = "call"
             /\ toolResults' # <<>>
             /\ ret' = "running"
             /\ messages' = messages \o <<MessageParam("assistant", message'),
                                           MessageParam("user", toolResults')>>
          \/ /\ pc' = "prompt"
             /\ toolResults' = <<>>
             /\ ret' = "nil"
             /\ messages' = Append(messages, MessageParam("assistant", message'))]_vars

\* C11 happens: runPrompt was entered again with the empty prompt, the tool
\* results being the last message of the history.
C11_Witness ==
    /\ pc = "call"
    /\ attempts = 0
    /\ Len(replyLog) = 1
    /\ toolResults # <<>>
    /\ messages[Len(messages)] = MessageParam("user", toolResults)
    /\ Len(messages) = 3

\* the ids of the calls among the first n blocks of msg for which CallTool
\* was invoked and a result recorded (outcomes o), in the order of the blocks
RECURSIVE RecordedCalls(_, _, _)
RecordedCalls(msg, o, n) ==
    IF n = 0 THEN <<>>
    ELSE IF o[n] \in {"ok", "toolerr"}
         THEN Append(RecordedCalls(msg, o, n - 1), msg[n].ID)
         ELSE RecordedCalls(msg, o, n - 1)

\* the ids named by a sequence of tool_result blocks, in order
ResultIds(tr) == [k \in DOMAIN tr |-> tr[k].ToolUseID]

\* C12: the blocks of a reply are handled one at a time in the order of the
\* reply: each step of the loop handles the next block and that block only;
\* the tool results collected, and those appended to the history on re-entry,
\* name the calls in the order in which the calls appear in the reply.
C12_SequentialInOrder ==
    /\ [](/\ Len(outcome) <= Len(message)
          /\ ResultIds(toolResults) = RecordedCalls(message, outcome, Len(outcome))
          /\ (pc = "call" /\ toolResults # <<>>) =>
                messages[Len(messages)] = MessageParam("user", toolResults))
    /\ [][pc = "dispatch" =>
            /\ Len(outcome') = Len(outcome) + 1
            /\ SubSeq(outcome', 1, Len(outcome)) = outcome
            /\ message' = message
            /\ SubSeq(toolResults', 1, Len(toolResults)) = toolResults
            /\ Len(toolResults') <= Len(toolResults) + 1]_vars

\* C12 happens: two calls of one reply were both invoked; the first failed.
C12_Witness ==
    /\ Len(message) = 2
    /\ outcome = <<"toolerr", "ok">>
    /\ ResultIds(toolResults) = <<message[1].ID, message[2].ID>>
    /\ message[1].ID # message[2].ID
    /\ pc = "call"
    /\ attempts = 0

\* the number of separators in a tool name
Separators(name) == Cardinality({k \in DOMAIN name : name[k] = "__"})

\* the server part of a name with one separator
ServerPart(name) ==
    SubSeq(name, 1, (CHOOSE k \in DOMAIN name : name[k] = "__") - 1)

\* a call that the loop has to skip for its name
Unroutable(block) ==
    /\ block.Type = "tool_use"
    /\ \/ Separators(block.Name) # 1
       \/ ServerPart(block.Name) \notin mcpClients

\* C13: a tool call whose name does not have exactly two parts, or names no
\* configured server, is skipped, and only such a call is: no tool is invoked
\* and no tool result is recorded for it, neither in toolResults nor in the
\* history; the blocks after it are still handled and runPrompt is not left
\* because of it.
C13_MalformedCallSkipped ==
    \A i \in DOMAIN outcome :
        /\ Unroutable(message[i]) <=> outcome[i] \in {"badname", "noserver"}
        /\ Unroutable(message[i]) =>
              /\ Separators(message[i].Name) # 1 <=> outcome[i] = "badname"
              /\ \A r \in BlocksOfType(messages, "tool_result") \cup
                          {toolResults[k] : k \in DOMAIN toolResults} :
                     r.ToolUseID # message[i].ID
              /\ pc \in {"call", "prompt"} => Len(outcome) = Len(message)
              /\ (pc = "exit" /\ ~RendererFailed) =>
                     (Len(outcome) = Len(message) /\ err \in ProviderErrors)

\* C13 happens: the first call of a reply was skipped for its name, the
\* second was invoked, and runPrompt was entered again.
C13_Witness ==
    /\ outcome = <<"badname", "ok">>
    /\ pc = "call"
    /\ ResultIds(toolResults) = <<message[2].ID>>

\* C14: for every history and every window of at least 1, pruneMessages
\* returns at most messageWindow messages.
C14_PruneResultWithinWindow ==
    (pruneCall.called /\ messageWindow >= 1) =>
        Len(pruneCall.output) <= messageWindow

\* C14 happens: a history longer than the window was cut to exactly the
\* window, no message of the suffix being dropped.
C14_Witness ==
    /\ pc = "pruned"
    /\ messageWindow >= 2
    /\ Len(pruneCall.input) > messageWindow + 1
    /\ Len(pruneCall.output) = messageWindow

\* the last n messages of msgs
LastN(msgs, n) == SubSeq(msgs, Len(msgs) - n + 1, Len(msgs))

\* block b has no partner among the messages sfx: a tool_use no tool_result
\* names, or a tool_result naming no tool_use
Orphan(b, sfx) ==
    \/ /\ b.Type = "tool_use"
       /\ ~\E r \in BlocksOfType(sfx, "tool_result") : r.ToolUseID = b.ID
    \/ /\ b.Type = "tool_result"
       /\ ~\E u \in BlocksOfType(sfx, "tool_use") : u.ID = b.ToolUseID

\* every block of m is an orphan among sfx (so is a message without blocks)
AllOrphaned(m, sfx) == \A j \in DOMAIN m.Content : Orphan(m.Content[j], sfx)

\* the call pruneMessages made on a history longer than a window of at least 1
Truncating == pruneCall.called /\ messageWindow >= 1 /\ Len(pruneCall.input) > messageWindow

UserA == MessageParam("user", <<TextBlock("hello")>>)
UserB == MessageParam("user", <<TextBlock("again")>>)
AssistantToolUse1 == MessageParam("assistant", <<GoodTool(1)>>)
ToolResult1 == MessageParam("user", <<ToolResultBlock(1, "result")>>)

\* C15: with window 2 the history [user A, assistant(tool_use 1),
\* tool_result(1), user B] is pruned to exactly [user B]; in general the
\* result has one message for each message of the retained suffix that has a
\* block which is no orphan, and none for a message whose blocks are all
\* orphans, and no message of the result is without blocks.
C15_OrphanedResultDropped ==
    /\ (pruneCall.called /\ messageWindow = 2
          /\ pruneCall.input = <<UserA, AssistantToolUse1, ToolResult1, UserB>>)
         => pruneCall.output = <<UserB>>
    /\ Truncating =>
         LET sfx == LastN(pruneCall.input, messageWindow)
         IN  /\ Len(pruneCall.output) =
                   Cardinality({i \in DOMAIN sfx : ~AllOrphaned(sfx[i], sfx)})
             /\ \A k \in DOMAIN pruneCall.output : pruneCall.output[k].Content # <<>>

\* C15 happens: the scenario was pruned with window 2.
C15_Witness ==
    /\ pc = "pruned"
    /\ messageWindow = 2
    /\ pruneCall.input = <<UserA, AssistantToolUse1, ToolResult1, UserB>>
    /\ pruneCall.output = <<UserB>>

\* C16 as claimed: when every tool_use of the last messageWindow messages has
\* its tool_result among them and every tool_result its tool_use, pruning
\* returns exactly those messages.
C16_PairedSuffixKeptAsClaimed ==
    (Truncating /\ Paired(LastN(pruneCall.input, messageWindow)))
        => pruneCall.output = LastN(pruneCall.input, messageWindow)

\* C16: with window 3 the history [user A, assistant(tool_use 1),
\* tool_result(1), user B] is pruned to its last three messages; in general,
\* when the blocks of the last messageWindow messages are paired among
\* themselves, pruning returns those messages with all their blocks, leaving
\* out only the messages without any block.
C16_PairedSuffixKept ==
    /\ (pruneCall.called /\ messageWindow = 3
          /\ pruneCall.input = <<UserA, AssistantToolUse1, ToolResult1, UserB>>)
         => pruneCall.output = <<AssistantToolUse1, ToolResult1, UserB>>
    /\ (Truncating /\ Paired(LastN(pruneCall.input, messageWindow))) =>
         LET sfx == LastN(pruneCall.input, messageWindow)
             hasBlocks(m) == m.Content # <<>>
         IN  /\ pruneCall.output = SelectSeq(sfx, hasBlocks)
             /\ (\A i \in DOMAIN sfx : hasBlocks(sfx[i])) => pruneCall.output = sfx

\* C16 happens: the scenario was pruned with window 3.
C16_Witness ==
    /\ pc = "pruned"
    /\ messageWindow = 3
    /\ pruneCall.input = <<UserA, AssistantToolUse1, ToolResult1, UserB>>
    /\ pruneCall.output = <<AssistantToolUse1, ToolResult1, UserB>>

\* the messages of msgs whose role is not assistant, in order
NonAssistant(msgs) ==
    LET other(m) == m.Role # "assistant"
    IN  SelectSeq(msgs, other)

\* C17 as claimed: every message of the retained suffix whose role is not
\* assistant is in the result of pruning.
C17_NonAssistantKeptAsClaimed ==
    Truncating =>
        Len(NonAssistant(pruneCall.output)) =
            Len(NonAssistant(LastN(pruneCall.input, messageWindow)))

\* C17: a message of the retained suffix whose role is not assistant is in
\* the result of pruning if and only if one of its blocks survives the orphan
\* filter (a text block always does); one whose blocks are all orphaned
\* tool_result blocks is dropped.
C17_NonAssistantKeptIfBlockSurvives ==
    Truncating =>
        LET sfx == LastN(pruneCall.input, messageWindow)
            surviving(m) == ~AllOrphaned(m, sfx)
        IN  /\ Len(NonAssistant(pruneCall.output)) =
                  Len(SelectSeq(NonAssistant(sfx), surviving))
            /\ \A k \in DOMAIN pruneCall.output : pruneCall.output[k].Content # <<>>
            /\ \A i \in DOMAIN sfx :
                  (sfx[i].Role # "assistant" /\ HasTextBlock(sfx[i])) => surviving(sfx[i])

\* C17 happens: of two user messages carrying tool results, the one whose
\* tool_use was cut off is dropped, the other is kept.
C17_Witness ==
    /\ pc = "pruned"
    /\ Truncating
    /\ Len(NonAssistant(pruneCall.output)) <
          Len(NonAssistant(LastN(pruneCall.input, messageWindow)))
    /\ BlocksOfType(pruneCall.output, "tool_result") # {}

\* the messages of msgs whose role is assistant, in order
Assistant(msgs) ==
    LET same(m) == m.Role = "assistant"
    IN  SelectSeq(msgs, same)

\* m has a text block, or a tool_use block that a tool_result of sfx names
HasTextOrPairedUse(m, sfx) ==
    \E j \in DOMAIN m.Content :
        \/ m.Content[j].Type = "text"
        \/ /\ m.Content[j].Type = "tool_use"
           /\ \E r \in BlocksOfType(sfx, "tool_result") : r.ToolUseID = m.Content[j].ID

\* C18: the assistant messages of the result of pruning are those assistant
\* messages of the retained suffix that have a text block or a tool_use block
\* paired within the suffix, in their order; the others are dropped.
C18_AssistantDroppedIff ==
    Truncating =>
        LET sfx == LastN(pruneCall.input, messageWindow)
            retained(m) == HasTextOrPairedUse(m, sfx)
            expected == SelectSeq(Assistant(sfx), retained)
            got == Assistant(pruneCall.output)
        IN  /\ Len(got) = Len(expected)
            /\ \A k \in DOMAIN got :
                  /\ HasTextOrPairedUse(got[k], sfx)
                  /\ HasTextBlock(got[k]) <=> HasTextBlock(expected[k])

\* C18 happens: an assistant message holding only an orphaned tool_use is
\* dropped while another assistant message of the suffix is retained.
C18_Witness ==
    /\ pc = "pruned"
    /\ Truncating
    /\ \E i \in DOMAIN LastN(pruneCall.input, messageWindow) :
          LET m == LastN(pruneCall.input, messageWindow)[i]
          IN  /\ m.Role = "assistant"
              /\ m.Content # <<>>
              /\ AllOrphaned(m, LastN(pruneCall.input, messageWindow))
    /\ \E k \in DOMAIN pruneCall.output :
          /\ pruneCall.output[k].Role = "assistant"
          /\ BlocksOfType(<<pruneCall.output[k]>>, "tool_use") # {}

\* a step that enters runPrompt: from the interaction loop with a prompt, or
\* from runPrompt itself with the tool results
EntersRunPrompt ==
    /\ pc' = "call"
    /\ pc = "prompt" \/ outcome' # outcome \/ replyLog' # replyLog

\* C19: every entry of runPrompt, the re-entry after a successful call of the
\* same turn and the entry of the next turn alike, starts its retry loop with
\* retries 0 and backoff initialBackoff, whatever retries the previous loop
\* made; and a retry loop has only counted its own failed calls.
C19_BackoffReset ==
    /\ [][EntersRunPrompt =>
             /\ retries' = 0
             /\ backoff' = initialBackoff
             /\ attempts' = 0
             /\ sleeps' = <<>>]_vars
    /\ [](pc = "call" =>
             /\ retries = attempts
             /\ retries < maxRetries + 1
             /\ backoff = Min(initialBackoff * Pow2(retries), maxBackoff))

\* C19 happens: a call succeeded after a failed one and runPrompt was entered
\* again for the tool results.
C19_Witness ==
    /\ pc = "call"
    /\ providerFailed
    /\ Len(replyLog) = 1
    /\ attempts = 0
    /\ retries = 0
    /\ backoff = initialBackoff
    /\ err = NoError

\* a is b with some elements removed: the elements of a are elements of b,
\* equal in every field and in the same relative order
RECURSIVE IsSubSeq(_, _)
IsSubSeq(a, b) ==
    IF a = <<>> THEN TRUE
    ELSE IF b = <<>> THEN FALSE
    ELSE IF Head(a) = Head(b) THEN IsSubSeq(Tail(a), Tail(b))
    ELSE IsSubSeq(a, Tail(b))

\* out is sfx with some messages removed and some blocks removed from the
\* others: roles and order kept
RECURSIVE OnlyDeleted(_, _)
OnlyDeleted(out, sfx) ==
    IF out = <<>> THEN TRUE
    ELSE IF sfx = <<>> THEN FALSE
    ELSE IF Head(out).Role = Head(sfx).Role /\ IsSubSeq(Head(out).Content, Head(sfx).Content)
         THEN OnlyDeleted(Tail(out), Tail(sfx))
         ELSE OnlyDeleted(out, Tail(sfx))

\* C20: the result of pruning is the last messageWindow messages of the
\* history (all of them if there are fewer) with whole messages removed and
\* blocks removed: order and roles of the messages kept, order and fields of
\* the blocks kept, nothing added.
C20_PruneOnlyDeletes ==
    (pruneCall.called /\ messageWindow >= 1) =>
        /\ OnlyDeleted(pruneCall.output,
                       LastN(pruneCall.input, Min(messageWindow, Len(pruneCall.input))))
        /\ BlocksOf(pruneCall.output) \subseteq
              BlocksOf(LastN(pruneCall.input, Min(messageWindow, Len(pruneCall.input))))

\* C20 happens: a message is cut off by the window, a message of the suffix
\* is removed, and a retained message of two blocks is unchanged.
C20_Witness ==
    /\ pc = "pruned"
    /\ Truncating
    /\ Len(pruneCall.output) < messageWindow
    /\ \E k \in DOMAIN pruneCall.output : Len(pruneCall.output[k].Content) = 2

\* a step of the interaction loop that reads an empty line or a command
ConsumesLine ==
    /\ pc = "prompt"
    /\ lastInput' \in {"empty", "command"}

\* C25: a line that is empty or begins with "/" is consumed by the
\* interaction loop: the history and everything of runPrompt stay as they
\* are, no model request is made, no tool is invoked, and the loop reads the
\* next line (or the process ends with /quit).
C25_CommandConsumed ==
    [][ConsumesLine =>
          /\ pc' \in {"prompt", "quit"}
          /\ messages' = messages
          /\ sentLen' = sentLen
          /\ outcome' = outcome
          /\ toolResults' = toolResults
          /\ turns' = turns]_vars

\* C30: pruneMessages returns normally for every history when the window is
\* not negative, the window of 0 with a non-empty history included: the call
\* never ends in a runtime panic.
C30_PruneReturnsNormally ==
    messageWindow >= 0 => (pc # "pure" => pc = "pruned")

\* the ids of the blocks of one type in the content of a message
IdsIn(content, type) ==
    {IF type = "tool_use" THEN content[k].ID ELSE content[k].ToolUseID :
        k \in {j \in DOMAIN content : content[j].Type = type}}

\* a and r are the two messages of one round: the assistant message and the
\* user message that carries exactly the tool results of the round, each of
\* them answering a tool_use of a
RoundPair(a, r, tr) ==
    /\ a.Role = "assistant"
    /\ r.Role = "user"
    /\ r.Content = tr
    /\ Len(tr) > 0
    /\ \A k \in DOMAIN tr : tr[k].Type = "tool_result"
    /\ IdsIn(tr, "tool_result") \subseteq IdsIn(a.Content, "tool_use")

\* a step of runPrompt after the prompt was appended
InsideRunPrompt == pc \in {"call", "dispatch"}

\* C28: the history is never torn by runPrompt: a step of it either leaves
\* the history as it is, or appends the assistant message of a round that
\* produced no tool result, or appends the assistant message together with
\* the message of the tool results of that round; a step that makes the turn
\* return an error, and every failed model call, appends nothing.
C28_HistoryNotTorn ==
    [][InsideRunPrompt =>
          /\ (ret' = "error" => messages' = messages)
          /\ (attempts' = attempts + 1 => messages' = messages)
          /\ \/ messages' = messages
             \/ /\ Len(messages') = Len(messages) + 1
                /\ SubSeq(messages', 1, Len(messages)) = messages
                /\ messages'[Len(messages')] = MessageParam("assistant", message')
                /\ toolResults' = <<>>
             \/ /\ Len(messages') = Len(messages) + 2
                /\ SubSeq(messages', 1, Len(messages)) = messages
                /\ messages'[Len(messages) + 1] = MessageParam("assistant", message')
                /\ RoundPair(messages'[Len(messages) + 1], messages'[Len(messages) + 2],
                             toolResults')]_vars

\* C28 happens: the turn returned an error at a renderer failure in its
\* second round; the first round is in the history with both its messages
\* and nothing of the second round is.
C28_Witness ==
    /\ ret = "error"
    /\ RendererFailed
    /\ Len(replyLog) = 2
    /\ Len(messages) >= 3
    /\ messages[Len(messages) - 1].Role = "assistant"
    /\ RoundPair(messages[Len(messages) - 1], messages[Len(messages)],
                 messages[Len(messages)].Content)

\* CreateToolResponse was called and has returned a message
ResponseBuilt ==
    /\ adapter.op = "CreateToolResponse"
    /\ adapter.returned
    /\ ~adapter.response.failed

\* C21: whenever the content handed to CreateToolResponse has the empty
\* string as its string form, the text of the returned message is the
\* placeholder, which is not empty, whatever the adapter.
C21_PlaceholderForEmpty ==
    (ResponseBuilt /\ ContentStr(adapter.provider, adapter.content) = <<>>)
        => (adapter.response.Text = Placeholder /\ adapter.response.Text # <<>>)

\* C29 as claimed: for a tool call id that is not empty and any content,
\* CreateToolResponse yields a message that is a tool response and names
\* the id.
C29_ToolResponseNamesIdAsClaimed ==
    (adapter.op = "CreateToolResponse" /\ adapter.returned /\ adapter.toolCallID # "")
        => /\ ~adapter.response.failed
           /\ IsToolResponse(adapter.response)
           /\ GetToolResponseID(adapter.response) = adapter.toolCallID

\* C29: for a tool call id that is not empty, every message that
\* CreateToolResponse returns is a tool response and names the id; the call
\* returns an error and no message only for a content json.Marshal rejects,
\* and only with the ollama and openai adapters.
C29_ToolResponseNamesId ==
    (adapter.op = "CreateToolResponse" /\ adapter.returned /\ adapter.toolCallID # "")
        => IF adapter.response.failed
           THEN adapter.provider # "anthropic" /\ ~Marshalable(adapter.content)
           ELSE /\ IsToolResponse(adapter.response)
                /\ GetToolResponseID(adapter.response) = adapter.toolCallID

\* C29 happens: the openai adapter has built a tool response for the id
\* "call_1" from a byte slice.
C29_Witness ==
    /\ ResponseBuilt
    /\ adapter.provider = "openai"
    /\ adapter.toolCallID = "call_1"
    /\ adapter.content = BytesValue(<<"ok">>)
    /\ adapter.response.Text = <<"\"", "b2s=", "\"">>
    /\ IsToolResponse(adapter.response)

\* wire is made of messages of prior in their order: each element of wire is
\* what one message of prior became, later elements from later messages
RECURSIVE DerivedInOrder(_, _, _)
DerivedInOrder(provider, wire, prior) ==
    IF wire = <<>> THEN TRUE
    ELSE IF prior = <<>> THEN FALSE
    ELSE IF WireOf(provider, Head(prior)) = <<Head(wire)>>
         THEN DerivedInOrder(provider, Tail(wire), Tail(prior))
         ELSE DerivedInOrder(provider, wire, Tail(prior))

\* C22: the request built by CreateMessage holds the converted prior
\* messages in their relative order, followed by a user message with the
\* prompt as the last element if the prompt is not empty, and by nothing if
\* it is empty.
C22_OrderKeptPromptLast ==
    (adapter.op = "CreateMessage" /\ adapter.returned) =>
        LET wire == adapter.wire
            n == Len(wire)
        IN  IF adapter.prompt # <<>>
            THEN /\ n >= 1
                 /\ wire[n] = PromptWire(adapter.prompt)
                 /\ DerivedInOrder(adapter.provider, SubSeq(wire, 1, n - 1), adapter.prior)
            ELSE DerivedInOrder(adapter.provider, wire, adapter.prior)

\* C22 happens: the ollama adapter has built a request from three prior
\* messages, one of which it leaves out, and a prompt.
C22_Witness ==
    /\ adapter.op = "CreateMessage"
    /\ adapter.returned
    /\ adapter.provider = "ollama"
    /\ adapter.prompt = <<"next">>
    /\ Len(adapter.prior) = 3
    /\ Len(adapter.wire) = 3
    /\ adapter.wire[1].Role = "user"
    /\ adapter.wire[2].Role = "tool"

\* C23: the tool calls that GetToolCalls returns for a message have ids that
\* differ from one another, with every adapter, two calls of the same tool in
\* one message of ollama included.
C23_ToolCallIdsDistinct ==
    adapter.op = "GetToolCalls" =>
        \A i \in DOMAIN adapter.invocations :
            \A j, k \in DOMAIN adapter.invocations[i] :
                j # k => adapter.invocations[i][j].ID # adapter.invocations[i][k].ID

\* C24: two invocations of GetToolCalls on the same message return the same
\* tool calls: same ids and names in the same order.
C24_ToolCallsDeterministic ==
    adapter.op = "GetToolCalls" =>
        \A i, j \in DOMAIN adapter.invocations :
            adapter.invocations[i] = adapter.invocations[j]

\* suffix[i] is a message with n tool calls that is followed by n messages of
\* the role tool
Answered(suffix, i) ==
    /\ Len(suffix[i].ToolCalls) > 0
    /\ i + Len(suffix[i].ToolCalls) <= Len(suffix)
    /\ \A k \in 1..Len(suffix[i].ToolCalls) : suffix[i + k].Role = "tool"

\* C26: for a history of api.Message longer than the window, every retained
\* message with n tool calls that is followed in the retained suffix by its n
\* tool messages is followed by all n of them in the result, and a tool
\* message is in the result only after the retained message with tool calls
\* that it answers.
C26_OllamaPairingKept ==
    (pc = "pruned" /\ Len(pruneCall.input) > messageWindow) =>
        LET suffix == LastN(pruneCall.input, messageWindow)
            kept == OllamaKeptFrom(suffix, 1)
        IN  /\ \A p \in DOMAIN kept :
                  Answered(suffix, kept[p]) =>
                      /\ p + Len(suffix[kept[p]].ToolCalls) <= Len(kept)
                      /\ \A k \in 1..Len(suffix[kept[p]].ToolCalls) :
                             kept[p + k] = kept[p] + k
            /\ \A p \in DOMAIN kept :
                  suffix[kept[p]].Role = "tool" =>
                      \E q \in 1..(p - 1) :
                          /\ Len(suffix[kept[q]].ToolCalls) >= kept[p] - kept[q]
                          /\ \A i \in (kept[q] + 1)..kept[p] : suffix[i].Role = "tool"

\* C27: runOllamaPrompt calls the model again within a turn only after a
\* round that appended at least one tool message to the history; after a
\* reply whose tool calls were all skipped the turn ends.
C27_FurtherCallOnlyAfterToolResult ==
    (pc = "chat" /\ replyLog # <<>>) =>
        /\ replyLog[Len(replyLog)] > 0
        /\ Len(toolResults) > 0
        /\ messages[Len(messages)].Role = "tool"

====
